---- MODULE Spec2Model ----
(***************************************************************************)
(* GOMX-3 beacon parser (beacon.py): the constructor Beacon0.__init__ and  *)
(* the accessor Beacon0.fields, modelled statement by statement.           *)
(*                                                                         *)
(* Bytes are integers 0..255 and a byte string is a sequence of them.      *)
(* TLC integers are 32-bit signed, so an unsigned 32-bit value is kept as  *)
(* the pair of its 16-bit halves [hi, lo] (value = hi * 65536 + lo).       *)
(* A Python dict is a function from its keys; an object is the function    *)
(* from its attribute names, so an attribute that was never assigned is    *)
(* simply not in the domain.                                               *)
(***************************************************************************)
EXTENDS Integers, Sequences, FiniteSets, TLC

VARIABLES data, csp, crc, pc, bdata, parts, self, exc, ret, reads, prev

vars == <<data, csp, crc, pc, bdata, parts, self, exc, ret, reads, prev>>

(***************************************************************************)
(* Class constants                                                         *)
(***************************************************************************)
BEACON0_LENGTH == 136

BEACON0_SOURCE == 1

BEACON0_DEST == 10

BEACON0_DPORT == 30

(***************************************************************************)
(* Python slicing on byte strings                                          *)
(***************************************************************************)
Min(a, b) == IF a < b THEN a ELSE b

Max(a, b) == IF a > b THEN a ELSE b

\* s[:k] for k >= 0
SliceTo(s, k) == SubSeq(s, 1, Min(k, Len(s)))

\* s[k:] for k >= 0
SliceFrom(s, k) == SubSeq(s, Min(k, Len(s)) + 1, Len(s))

\* s[:-k] for k > 0
SliceDropLast(s, k) == SubSeq(s, 1, Max(Len(s) - k, 0))

(***************************************************************************)
(* Integer operators of the header check                                   *)
(***************************************************************************)
RECURSIVE Pow2(_)
Pow2(n) == IF n = 0 THEN 1 ELSE 2 * Pow2(n - 1)

\* bitwise a & b on non-negative integers
RECURSIVE BitAnd(_, _)
BitAnd(a, b) ==
    IF a = 0 \/ b = 0 THEN 0
    ELSE (IF a % 2 = 1 /\ b % 2 = 1 THEN 1 ELSE 0) + 2 * BitAnd(a \div 2, b \div 2)

\* w >> k on an unsigned 32-bit value held as 16-bit halves
ShiftRight(w, k) ==
    IF k >= 16
    THEN [hi |-> 0, lo |-> w.hi \div Pow2(k - 16)]
    ELSE [hi |-> w.hi \div Pow2(k),
          lo |-> (w.lo \div Pow2(k)) + (w.hi % Pow2(k)) * Pow2(16 - k)]

\* w & m for a mask m below 2^16
AndMask(w, m) == BitAnd(w.lo, m)

(***************************************************************************)
(* struct: format strings, calcsize and unpack                             *)
(* A format is its byte-order character and its items <<count, code>>.     *)
(* With '<' or '>' the sizes are the standard ones and there is no padding.*)
(***************************************************************************)
StructError == [type |-> "struct.error", msg |-> "unpack requires a buffer"]

CodeSize(code) ==
    CASE code = "B" -> 1
      [] code = "H" -> 2
      [] code = "h" -> 2
      [] code = "I" -> 4
      [] code = "f" -> 4

\* the fields of a format in order: [code, size]; 'Ns' is one field of N bytes
RECURSIVE FormatFields(_)
FormatFields(items) ==
    IF items = <<>> THEN <<>>
    ELSE LET count == Head(items)[1]
             code == Head(items)[2]
         IN  (IF code = "s"
              THEN << [code |-> "s", size |-> count] >>
              ELSE [i \in 1..count |-> [code |-> code, size |-> CodeSize(code)]])
             \o FormatFields(Tail(items))

RECURSIVE SumSizes(_)
SumSizes(fields) ==
    IF fields = <<>> THEN 0 ELSE Head(fields).size + SumSizes(Tail(fields))

CalcSize(fmt) == SumSizes(FormatFields(fmt.items))

\* offset (0-based) of field i within the buffer
FieldOffset(fields, i) == SumSizes(SubSeq(fields, 1, i - 1))

\* bytes of a multi-byte value, most significant first
Ordered(order, bytes) ==
    IF order = ">" THEN bytes
    ELSE [i \in 1..Len(bytes) |-> bytes[Len(bytes) + 1 - i]]

U16(b) == b[1] * 256 + b[2]

S16(b) == IF U16(b) >= 32768 THEN U16(b) - 65536 ELSE U16(b)

U32(b) == [hi |-> b[1] * 256 + b[2], lo |-> b[3] * 256 + b[4]]

\* IEEE-754 binary32, by its three bit fields
F32(b) ==
    [sign     |-> b[1] \div 128,
     exponent |-> (b[1] % 128) * 2 + b[2] \div 128,
     fraction |-> (b[2] % 128) * 65536 + b[3] * 256 + b[4]]

FieldValue(order, code, bytes) ==
    CASE code = "s" -> bytes
      [] code = "B" -> bytes[1]
      [] code = "H" -> U16(Ordered(order, bytes))
      [] code = "h" -> S16(Ordered(order, bytes))
      [] code = "I" -> U32(Ordered(order, bytes))
      [] code = "f" -> F32(Ordered(order, bytes))

\* struct.unpack(fmt, buf): the tuple of values, or struct.error on a size
\* mismatch
UnpackFails(fmt, buf) == Len(buf) # CalcSize(fmt)

Unpack(fmt, buf) ==
    LET fields == FormatFields(fmt.items)
    IN  [i \in 1..Len(fields) |->
            FieldValue(fmt.order, fields[i].code,
                       SubSeq(buf, FieldOffset(fields, i) + 1,
                              FieldOffset(fields, i) + fields[i].size))]

\* x / d with d a float literal: the quotient, kept exact as num/den
TrueDiv(x, d) == [num |-> x, den |-> d]

(***************************************************************************)
(* The format strings of beacon.py                                         *)
(***************************************************************************)
\* the header word read with the byte order of the payload fields
HeaderFmt_BigEndian == [order |-> ">", items |-> << <<1, "I">> >>]

HeaderFmt == [order |-> "<", items |-> << <<1, "I">> >>]

\* the boundary between the first two sub-blocks moved by one byte
SplitFmt_Shifted ==
    [order |-> "<",
     items |-> << <<1, "B">>, <<48, "s">>, <<15, "s">>, <<14, "s">>,
                  <<20, "s">>, <<38, "s">> >>]

SplitFmt ==
    [order |-> "<",
     items |-> << <<1, "B">>, <<49, "s">>, <<14, "s">>, <<14, "s">>,
                  <<20, "s">>, <<38, "s">> >>]

EPSFmt ==
    [order |-> ">", items |-> << <<1, "I">>, <<16, "H">>, <<6, "h">>, <<1, "B">> >>]

\* the comms values read as unsigned
COMFmt_Unsigned == [order |-> ">", items |-> << <<1, "I">>, <<5, "H">> >>]

COMFmt == [order |-> ">", items |-> << <<1, "I">>, <<5, "h">> >>]

\* one temperature too many
OBCFmt_Wide == [order |-> ">", items |-> << <<1, "I">>, <<3, "H">>, <<3, "h">> >>]

OBCFmt == [order |-> ">", items |-> << <<1, "I">>, <<3, "H">>, <<2, "h">> >>]

\* one temperature missing
ADCSFmt_Short == [order |-> ">", items |-> << <<1, "I">>, <<6, "H">>, <<1, "h">> >>]

ADCSFmt == [order |-> ">", items |-> << <<1, "I">>, <<6, "H">>, <<2, "h">> >>]

ADSBFmt ==
    [order |-> ">",
     items |-> << <<1, "I">>, <<7, "H">>, <<1, "I">>, <<2, "f">>, <<2, "I">> >>]

(***************************************************************************)
(* base64.b64decode and the sample of the __main__ driver                  *)
(***************************************************************************)
B64Alphabet ==
    << "A", "B", "C", "D", "E", "F", "G", "H", "I", "J", "K", "L", "M", "N", 
       "O", "P", "Q", "R", "S", "T", "U", "V", "W", "X", "Y", "Z", "a", "b", 
       "c", "d", "e", "f", "g", "h", "i", "j", "k", "l", "m", "n", "o", "p", 
       "q", "r", "s", "t", "u", "v", "w", "x", "y", "z", "0", "1", "2", "3", 
       "4", "5", "6", "7", "8", "9", "+", "/" >>

B64Value(c) == (CHOOSE i \in 1..64 : B64Alphabet[i] = c) - 1

\* one group of four characters gives three bytes, fewer when padded with '='
B64Group(g) ==
    LET pad == IF g[3] = "=" THEN 2 ELSE IF g[4] = "=" THEN 1 ELSE 0
        v(i) == IF g[i] = "=" THEN 0 ELSE B64Value(g[i])
        b1 == v(1) * 4 + v(2) \div 16
        b2 == (v(2) % 16) * 16 + v(3) \div 4
        b3 == (v(3) % 4) * 64 + v(4)
    IN  SubSeq(<<b1, b2, b3>>, 1, 3 - pad)

RECURSIVE B64Decode(_)
B64Decode(s) ==
    IF Len(s) < 4 THEN <<>>
    ELSE B64Group(SubSeq(s, 1, 4)) \o B64Decode(SubSeq(s, 5, Len(s)))

SampleB64 ==
    << "A", "L", "n", "8", "/", "M", "Q", "J", "Q", "A", "l", "M", "C", "R", 
       "l", "A", "z", "w", "C", "t", "A", "E", "E", "A", "B", "A", "B", "E", 
       "A", "H", "A", "A", "A", "A", "A", "C", "A", "A", "I", "A", "A", "w", 
       "O", "e", "A", "H", "A", "A", "W", "w", "A", "c", "A", "B", "4", "A", 
       "H", "g", "A", "d", "A", "B", "w", "A", "H", "A", "O", "5", "/", "P", 
       "z", "E", "A", "T", "g", "B", "O", "f", "/", "F", "/", "5", "X", "/", 
       "l", "b", "n", "8", "/", "M", "Q", "A", "A", "A", "A", "B", "A", "A", 
       "A", "A", "A", "A", "E", "+", "u", "f", "z", "8", "x", "A", "A", "C", 
       "A", "A", "c", "A", "A", "A", "A", "E", "A", "A", "4", "A", "A", "A", 
       "E", "6", "A", "T", "m", "5", "/", "P", "z", "E", "A", "M", "k", "A", 
       "K", "A", "A", "B", "A", "A", "Y", "A", "F", "g", "A", "z", "A", "B", 
       "g", "A", "R", "J", "L", "h", "Q", "m", "B", "H", "P", "E", "E", "c", 
       "0", "2", "I", "A", "A", "H", "j", "/", "u", "f", "z", "8", "u", "U", 
       "i", "0", "x", "s", "g", "=" >>

SampleFrame == B64Decode(SampleB64)

(***************************************************************************)
(* Exceptions raised by the constructor                                    *)
(***************************************************************************)
NoException == [type |-> "", msg |-> ""]

TypeError(msg) == [type |-> "TypeError", msg |-> msg]

(***************************************************************************)
(* Beacon0.__init__, lines 40-66: header, CRC, length and type checks      *)
(***************************************************************************)
Src(header) == AndMask(ShiftRight(header, 25), 31)

Dst(header) == AndMask(ShiftRight(header, 20), 31)

Dport(header) == AndMask(ShiftRight(header, 14), 63)

\* the condition of the raise at line 49
RoutingMismatches(header) ==
    \/ Src(header) # BEACON0_SOURCE
    \/ Dst(header) # BEACON0_DEST
    \/ Dport(header) # BEACON0_DPORT

\* the trailer left in place
StripCRC_Keep(b) == b

\* one trailer byte left in place
StripCRC_Three(b) == SliceDropLast(b, 3)

\* bdata = bdata[:-4]
StripCRC(b) == SliceDropLast(b, 4)

\* the condition of the raise at line 58
LengthMismatches(b) == Len(b) # BEACON0_LENGTH

\* tag 1 let through
TypeMismatches_Above1(btype) == btype > 1

\* the condition of the raise at line 65
TypeMismatches(btype) == btype # 0

\* the names bound by the tuple assignment at line 62
SplitNames == <<"btype", "eps", "com", "obc", "adcs", "adsb">>

\* offset (0-based) within bdata of the sub-block bound to a name
BlockOffset(name) ==
    FieldOffset(FormatFields(SplitFmt.items),
                CHOOSE i \in 1..Len(SplitNames) : SplitNames[i] = name)

\* the byte range of bdata read for the type tag
TagSpan ==
    [block |-> "btype",
     off   |-> BlockOffset("btype"),
     size  |-> FormatFields(SplitFmt.items)[1].size]

\* tuple assignment: each name bound to the value at its position
Bind(names, values) ==
    [n \in {names[i] : i \in 1..Len(names)} |->
        values[CHOOSE i \in 1..Len(names) : names[i] = n]]

\* the byte ranges of bdata that an unpack of a block reads, field by field
Spans(name, fmt) ==
    LET fields == FormatFields(fmt.items)
    IN  [i \in 1..Len(fields) |->
            [block |-> name,
             off   |-> BlockOffset(name) + FieldOffset(fields, i),
             size  |-> fields[i].size]]

(***************************************************************************)
(* Beacon0.__init__, lines 98-263: the five field groups                   *)
(***************************************************************************)
EPSDict(v) ==
    [timestamp |-> v[1],
     vboost    |-> <<v[2], v[3], v[4]>>,
     vbatt     |-> v[5],
     curout    |-> <<v[6], v[7], v[8], v[9], v[10], v[11], v[12]>>,
     curin     |-> <<v[13], v[14], v[15]>>,
     cursun    |-> v[16],
     cursys    |-> v[17],
     temp      |-> <<v[18], v[19], v[20], v[21], v[22], v[23]>>,
     battmode  |-> v[24]]

COMDict(v) ==
    [timestamp  |-> v[1],
     temp_brd   |-> TrueDiv(v[2], 10),
     temp_pa    |-> TrueDiv(v[3], 10),
     last_rssi  |-> v[4],
     last_rferr |-> v[5],
     bgnd_rssi  |-> v[6]]

\* the key of the second temperature is 'temp_b ' (with the blank)
OBCDict(v) ==
    [timestamp |-> v[1],
     cur_gssb1 |-> v[2],
     cur_gssb2 |-> v[3],
     cur_flash |-> v[4],
     temp_a    |-> TrueDiv(v[5], 10)]
    @@ ("temp_b " :> TrueDiv(v[6], 10))

ADCSDict(v) ==
    [timestamp |-> v[1],
     cur_gssb1 |-> v[2],
     cur_gssb2 |-> v[3],
     cur_flash |-> v[4],
     cur_pwm   |-> v[5],
     cur_gps   |-> v[6],
     cur_wde   |-> v[7],
     temp_a    |-> TrueDiv(v[8], 10)]
    @@ ("temp_b " :> TrueDiv(v[9], 10))

\* the key of the last field is 'last_time ' (with the blank)
ADSBDict(v) ==
    [timestamp  |-> v[1],
     cur5v0brd  |-> v[2],
     cur3v3brd  |-> v[3],
     cur3v3sd   |-> v[4],
     cur1v2     |-> v[5],
     cur2v5     |-> v[6],
     cur3v3fpga |-> v[7],
     cur3v3adc  |-> v[8],
     last_icao  |-> v[9],
     last_lat   |-> v[10],
     last_lon   |-> v[11],
     last_alt   |-> v[12]]
    @@ ("last_time " :> v[13])

(***************************************************************************)
(* The frames fed to the constructor                                       *)
(***************************************************************************)
\* longest of the short frames (shorter than a header, a trailer, or both)
ShortLen == 9

\* how far the frame lengths reach around 136 .. 136 + 4 + 4
Slack == 1

\* number of payloads of mixed bytes
NumMix == 2

Lengths ==
    (0..ShortLen) \cup ((BEACON0_LENGTH - Slack)..(BEACON0_LENGTH + 8 + Slack))

MaxFrame == BEACON0_LENGTH + 8 + Slack

\* header bytes: the expected routing word 0x02A78000 (little-endian
\* 00 80 A7 02), the same with the bits outside 14..29 set, and words with
\* one routing field changed
HeaderSamples ==
    {<<b0, b1, b2, b3>> : b0 \in {0, 255}, b1 \in {128, 191, 64},
                          b2 \in {167, 166, 183}, b3 \in {2, 194, 3, 4}}

GoodHeader == <<0, 128, 167, 2>>

TagSamples == {0, 1, 128, 255}

\* the bytes after the type tag, from payload offset 1 on:
\* the sample of the driver (zeros after its end),
SampleBody ==
    [i \in 1..MaxFrame |-> IF i + 1 <= Len(SampleFrame) THEN SampleFrame[i + 1] ELSE 0]

\* byte h at the even offsets and l at the odd ones, so that every 16-bit
\* field at an even offset is h * 256 + l and at an odd offset l * 256 + h,
WordBody(h, l) == [i \in 1..MaxFrame |-> IF i % 2 = 0 THEN h ELSE l]

\* and mixed bytes
MixBody(p) == [i \in 1..MaxFrame |-> (i * (2 * p + 83) + 41 * p) % 256]

Bodies ==
    {SampleBody, WordBody(0, 235), WordBody(255, 255)}
        \cup {MixBody(p) : p \in 1..NumMix}

WordBytes == {0, 1, 127, 128, 235, 255}

Frame(hdr, tag, body, n) == SubSeq(hdr \o <<tag>> \o body, 1, n)

\* frames of every sampled header, tag, payload and length; frames of every
\* tag value 0..255; frames of every sampled 16-bit word
Frames ==
    {Frame(hdr, tag, body, n) : hdr \in HeaderSamples \cup {<<>>},
                                tag \in TagSamples, body \in Bodies,
                                n \in Lengths}
    \cup {Frame(hdr, tag, SampleBody, n) : hdr \in {<<>>, GoodHeader},
                                           tag \in 0..255,
                                           n \in {136, 140, 144}}
    \cup {Frame(hdr, 0, WordBody(h, l), n) : hdr \in {<<>>, GoodHeader},
                                             h \in WordBytes, l \in WordBytes,
                                             n \in {136, 140, 144}}

(***************************************************************************)
(* State machine                                                           *)
(***************************************************************************)
Init ==
    /\ data \in Frames
    /\ csp \in BOOLEAN
    /\ crc \in BOOLEAN
    /\ pc = "header"
    /\ bdata = <<>>
    /\ parts = <<>>
    /\ self = <<>>
    /\ exc = NoException
    /\ ret = <<>>
    /\ reads = <<>>
    /\ prev = <<>>

Raise(e) ==
    /\ pc' = "raised"
    /\ exc' = e

\* lines 40-52
SplitHeader ==
    /\ pc = "header"
    /\ IF csp
       THEN LET hdata == SliceTo(data, 4)
            IN  IF UnpackFails(HeaderFmt, hdata)
                THEN Raise(StructError) /\ UNCHANGED bdata
                ELSE IF RoutingMismatches(Unpack(HeaderFmt, hdata)[1])
                THEN /\ Raise(TypeError("Beacon destination does not match"))
                     /\ bdata' = SliceFrom(data, 4)
                ELSE /\ pc' = "crc"
                     /\ bdata' = SliceFrom(data, 4)
                     /\ UNCHANGED exc
       ELSE /\ pc' = "crc"
            /\ bdata' = data
            /\ UNCHANGED exc
    /\ UNCHANGED <<prev, data, csp, crc, parts, self, ret, reads>>

\* lines 55-56
StripTrailer ==
    /\ pc = "crc"
    /\ bdata' = IF crc THEN StripCRC(bdata) ELSE bdata
    /\ pc' = "length"
    /\ UNCHANGED <<prev, data, csp, crc, parts, self, exc, ret, reads>>

\* lines 58-59
CheckLength ==
    /\ pc = "length"
    /\ IF LengthMismatches(bdata)
       THEN Raise(TypeError("Length does not match beacon 0"))
       ELSE pc' = "split" /\ UNCHANGED exc
    /\ UNCHANGED <<prev, data, csp, crc, bdata, parts, self, ret, reads>>

\* line 62
SplitFields ==
    /\ pc = "split"
    /\ IF UnpackFails(SplitFmt, bdata)
       THEN Raise(StructError) /\ UNCHANGED <<parts, reads>>
       ELSE /\ parts' = Bind(SplitNames, Unpack(SplitFmt, bdata))
            /\ reads' = reads \o <<TagSpan>>
            /\ pc' = "type"
            /\ UNCHANGED exc
    /\ UNCHANGED <<prev, data, csp, crc, bdata, self, ret>>

\* lines 65-66
CheckType ==
    /\ pc = "type"
    /\ IF TypeMismatches(parts.btype)
       THEN Raise(TypeError("Unknown beacon type"))
       ELSE pc' = "dict" /\ UNCHANGED exc
    /\ UNCHANGED <<prev, data, csp, crc, bdata, parts, self, ret, reads>>

\* line 69: self.beacon = {}
NewDict ==
    /\ pc = "dict"
    /\ self' = ("beacon" :> <<>>) @@ self
    /\ pc' = "eps"
    /\ UNCHANGED <<prev, data, csp, crc, bdata, parts, exc, ret, reads>>

\* the format string and the dict built for a group
GroupFmt(name) ==
    CASE name = "eps" -> EPSFmt
      [] name = "com" -> COMFmt
      [] name = "obc" -> OBCFmt
      [] name = "adcs" -> ADCSFmt
      [] name = "adsb" -> ADSBFmt

GroupDict(name, v) ==
    CASE name = "eps" -> EPSDict(v)
      [] name = "com" -> COMDict(v)
      [] name = "obc" -> OBCDict(v)
      [] name = "adcs" -> ADCSDict(v)
      [] name = "adsb" -> ADSBDict(v)

\* one group: values = struct.unpack(fmt, block); self.beacon[name] = {...}
DecodeBlock(name, next) ==
    /\ pc = name
    /\ IF UnpackFails(GroupFmt(name), parts[name])
       THEN Raise(StructError) /\ UNCHANGED <<self, reads>>
       ELSE /\ self' = [self EXCEPT
                          !.beacon = (name :> GroupDict(name,
                                         Unpack(GroupFmt(name), parts[name]))) @@ @]
            /\ reads' = reads \o Spans(name, GroupFmt(name))
            /\ pc' = next
            /\ UNCHANGED exc
    /\ UNCHANGED <<prev, data, csp, crc, bdata, parts, ret>>

\* lines 98-133
DecodeEPS == DecodeBlock("eps", "com")

\* lines 144-158
DecodeCOM == DecodeBlock("com", "obc")

\* lines 169-183
DecodeOBC == DecodeBlock("obc", "adcs")

\* lines 197-217
DecodeADCS == DecodeBlock("adcs", "adsb")

\* lines 235-263; the constructor returns after it
DecodeADSB == DecodeBlock("adsb", "constructed")

\* lines 265-266: fields() on a constructed object
Fields ==
    /\ pc = "constructed"
    /\ ret' = <<self.beacon>>
    /\ UNCHANGED <<prev, data, csp, crc, pc, bdata, parts, self, exc, reads>>

Next ==
    \/ SplitHeader
    \/ StripTrailer
    \/ CheckLength
    \/ SplitFields
    \/ CheckType
    \/ NewDict
    \/ DecodeEPS
    \/ DecodeCOM
    \/ DecodeOBC
    \/ DecodeADCS
    \/ DecodeADSB
    \/ Fields

Spec == Init /\ [][Next]_vars

(***************************************************************************)
(* A caller that decodes a second frame with the same flags: the frame it  *)
(* has just decoded with other bytes in its last four positions.  The      *)
(* outcome of the first call is kept in prev.                              *)
(***************************************************************************)
TrailerSamples == {<<0, 0, 0, 0>>, <<255, 255, 255, 255>>, <<1, 2, 3, 4>>}

Outcome == [pc |-> pc, exc |-> exc, self |-> self]

Redecode ==
    /\ pc \in {"constructed", "raised"}
    /\ prev = <<>>
    /\ crc
    /\ Len(data) >= 4
    /\ \E t \in TrailerSamples : data' = SubSeq(data, 1, Len(data) - 4) \o t
    /\ prev' = <<[data |-> data, outcome |-> Outcome]>>
    /\ pc' = "header"
    /\ bdata' = <<>>
    /\ parts' = <<>>
    /\ self' = <<>>
    /\ exc' = NoException
    /\ ret' = <<>>
    /\ reads' = <<>>
    /\ UNCHANGED <<csp, crc>>

NextTwin ==
    \/ Next
    \/ Redecode

SpecTwin == Init /\ [][NextTwin]_vars

(***************************************************************************)
(* Vocabulary of the properties, stated on the raw frame and the flags     *)
(***************************************************************************)
RoutingMismatch == TypeError("Beacon destination does not match")

LengthMismatch == TypeError("Length does not match beacon 0")

UnsupportedType == TypeError("Unknown beacon type")

Final == {"constructed", "raised"}

Groups == {"eps", "com", "obc", "adcs", "adsb"}

HeaderLen == IF csp THEN 4 ELSE 0

TrailerLen == IF crc THEN 4 ELSE 0

\* number of bytes left once the configured header and trailer are removed
Remaining == Max(Max(Len(data) - HeaderLen, 0) - TrailerLen, 0)

\* byte at offset k (0-based) of the payload
PayloadByte(k) == data[HeaderLen + k + 1]

\* the routing fields read from the first four bytes of the frame:
\* bits 25..29, 20..24 and 14..19 of the little-endian word
WireSource == (data[4] \div 2) % 32

WireDest == (data[3] \div 16) + (data[4] % 2) * 16

WirePort == (data[2] \div 64) + (data[3] % 16) * 4

\* bits 14..29 of the word as one number
WireRouting == (data[2] \div 64) + data[3] * 4 + (data[4] % 64) * 1024

HeaderPasses == WireSource = 1 /\ WireDest = 10 /\ WirePort = 30

\* the header, when one is configured, is complete and passes the check
HeaderAccepted == csp => (Len(data) >= 4 /\ HeaderPasses)

HasRecord == "beacon" \in DOMAIN self

\* C1: whenever the bytes left after removing the configured header and
\* trailer are not exactly 136, decoding fails with LengthMismatch, for every
\* frame (also one too short for its header or trailer) and every flag
\* combination.
C1_AsStated ==
    (pc \in Final /\ Remaining # 136) => (pc = "raised" /\ exc = LengthMismatch)

\* The part of C1 that the code satisfies: when the header is absent, or
\* complete and passing the routing check, and the bytes left after removing
\* the configured header and trailer are not exactly 136, decoding fails with
\* LengthMismatch whatever the first remaining byte is, also for frames too
\* short to contain the trailer.
C1_LengthMismatch ==
    (pc \in Final /\ HeaderAccepted /\ Remaining # 136)
        => (pc = "raised" /\ exc = LengthMismatch)

C1_Witness ==
    /\ ~csp /\ crc
    /\ Len(data) \in 1..3
    /\ data[1] # 0
    /\ exc = LengthMismatch

\* C2: with the header flag set and at least 4 bytes, the header check fails
\* with RoutingMismatch exactly when the source, destination and port fields
\* are not (1, 10, 30), whatever the length and type tag, and the outcome is
\* a function of bits 14..29 of the word alone.
C2_RoutingCheck ==
    (csp /\ Len(data) >= 4 /\ pc # "header")
        => /\ (pc = "raised" /\ exc = RoutingMismatch) <=> ~HeaderPasses
           /\ (pc = "raised" /\ exc = RoutingMismatch) <=> (WireRouting # 2718)

C2_Witness ==
    /\ csp /\ crc
    /\ Len(data) = 144
    /\ data[5] = 0
    /\ data[1] = 255
    /\ exc = RoutingMismatch

\* C3: a frame whose header is accepted and whose payload is exactly 136
\* bytes fails with UnsupportedType when its first payload byte is not 0, and
\* only tag 0 is decoded.
C3_UnsupportedType ==
    /\ (pc \in Final /\ HeaderAccepted /\ Remaining = 136 /\ PayloadByte(0) # 0)
          => (pc = "raised" /\ exc = UnsupportedType)
    /\ pc = "constructed" => PayloadByte(0) = 0

C3_Witness ==
    /\ csp /\ ~crc
    /\ Remaining = 136
    /\ PayloadByte(0) = 255
    /\ exc = UnsupportedType

\* C4: for each flag combination, a frame of length 136 + header + trailer
\* with an accepted header and type tag 0 is decoded without failure, and the
\* record returned by fields() has exactly the five groups.
C4_WellFormedDecodes ==
    (HeaderAccepted /\ Len(data) = 136 + HeaderLen + TrailerLen /\ PayloadByte(0) = 0)
        => /\ pc # "raised"
           /\ pc = "constructed" => DOMAIN self.beacon = Groups
           /\ ret # <<>> => DOMAIN ret[1] = Groups

C4_Witness ==
    /\ csp /\ crc
    /\ Len(data) = 144
    /\ ret # <<>>
    /\ DOMAIN ret[1] = Groups

\* C5: a failed decode fails with one of RoutingMismatch, LengthMismatch and
\* UnsupportedType; no other failure is reachable.
C5_ClosedErrors ==
    pc = "raised" => exc \in {RoutingMismatch, LengthMismatch, UnsupportedType}

\* the frame decoded before and the current one have the same length and
\* differ at most in their last 4 bytes
TwinFrames ==
    /\ prev # <<>>
    /\ Len(prev[1].data) = Len(data)
    /\ \A i \in 1..(Len(data) - 4) : prev[1].data[i] = data[i]

\* C6 (as stated): with the trailer flag set, two frames of equal length that
\* differ only in their last 4 bytes, decoded with the same flags, have the
\* same outcome.
C6_AsStated ==
    (pc \in Final /\ crc /\ TwinFrames) => Outcome = prev[1].outcome

\* C6 (amended): with the trailer flag set, two frames of equal length that
\* hold the configured header and the trailer (at least 4 bytes, 8 with a
\* header) and differ only in their last 4 bytes, decoded with the same
\* flags, have the same outcome.
C6_TrailerIgnored ==
    (pc \in Final /\ crc /\ TwinFrames /\ Len(data) >= HeaderLen + 4)
        => Outcome = prev[1].outcome

C6_Witness ==
    /\ pc = "constructed"
    /\ prev # <<>>
    /\ prev[1].data # data
    /\ prev[1].outcome.pc = "constructed"

\* C7 (as stated): the sample frame of the driver is 144 bytes long and
\* decodes, header absent and trailer present, to type tag 0 and five groups.
C7_AsStated ==
    (data = SampleFrame /\ ~csp /\ crc)
        => /\ Len(data) = 144
           /\ pc # "raised"

\* C7 (amended): the sample frame of the driver is 140 bytes long; decoded
\* with header absent and trailer present it does not fail, its type tag is 0
\* and all five groups are populated.
C7_Golden ==
    (data = SampleFrame /\ ~csp /\ crc)
        => /\ Len(data) = 140
           /\ pc # "raised"
           /\ DOMAIN parts # {} => parts.btype = 0
           /\ pc = "constructed"
                => /\ DOMAIN self.beacon = Groups
                   /\ \A g \in Groups : DOMAIN self.beacon[g] # {}
                   /\ self.beacon.eps.vbatt = 16591
                   /\ self.beacon.com.temp_brd = [num |-> 312, den |-> 10]
                   /\ self.beacon.com.last_rssi = -59
                   /\ self.beacon.adsb.last_alt = [hi |-> 0, lo |-> 30975]

C7_Witness ==
    /\ data = SampleFrame /\ ~csp /\ crc
    /\ pc = "constructed"

\* a signed 16-bit value x is the two's-complement reading of the bytes at
\* payload offsets k (high) and k + 1 (low)
SignedAt(x, k) ==
    /\ x \in -32768..32767
    /\ (x - (PayloadByte(k) * 256 + PayloadByte(k + 1))) % 65536 = 0

TenthsAt(t, k) == t.den = 10 /\ SignedAt(t.num, k)

\* C8: in a decoded record the comms (board, amplifier), onboard-computer
\* (a, b) and attitude-control (a, b) temperatures are the signed big-endian
\* 16-bit wire values at their offsets divided by 10, and the six power
\* temperatures are the signed values unscaled.
C8_Temperatures ==
    pc = "constructed"
        => /\ TenthsAt(self.beacon.com.temp_brd, 54)
           /\ TenthsAt(self.beacon.com.temp_pa, 56)
           /\ TenthsAt(self.beacon.obc.temp_a, 74)
           /\ TenthsAt(self.beacon.obc["temp_b "], 76)
           /\ TenthsAt(self.beacon.adcs.temp_a, 94)
           /\ TenthsAt(self.beacon.adcs["temp_b "], 96)
           /\ \A j \in 1..6 : SignedAt(self.beacon.eps.temp[j], 35 + 2 * j)

C8_Witness ==
    /\ pc = "constructed"
    /\ PayloadByte(54) = 255 /\ PayloadByte(55) = 255
    /\ self.beacon.com.temp_brd = [num |-> -1, den |-> 10]
    /\ self.beacon.eps.temp[1] = -1

\* C9: a failed decode leaves no record and no partial record; a record
\* exists only once the routing, length and type checks have passed, and a
\* constructed object holds all five groups.
C9_Atomic ==
    /\ pc = "raised" => (~HasRecord /\ ret = <<>>)
    /\ HasRecord => (HeaderAccepted /\ Remaining = 136 /\ PayloadByte(0) = 0)
    /\ pc = "constructed" => (HasRecord /\ DOMAIN self.beacon = Groups)
    /\ ret # <<>> => (pc = "constructed" /\ DOMAIN ret[1] = Groups)

C9_Witness ==
    /\ pc = "raised"
    /\ exc = UnsupportedType
    /\ HeaderAccepted
    /\ ~HasRecord

\* the layout table: offset and length of the tag and of each sub-block
Layout ==
    [btype |-> <<0, 1>>, eps |-> <<1, 49>>, com |-> <<50, 14>>,
     obc |-> <<64, 14>>, adcs |-> <<78, 20>>, adsb |-> <<98, 38>>]

ReadsOf(name) == {k \in DOMAIN reads : reads[k].block = name}

\* C10: the tag is byte 0 and the sub-blocks start at 1, 50, 64, 78, 98 with
\* lengths 49, 14, 14, 20, 38; every field is read inside its own sub-block,
\* the field widths of a sub-block sum to its length, and each of the 136
\* payload bytes is read by exactly one field.
C10_Partition ==
    /\ DOMAIN parts # {}
          => /\ parts.btype = bdata[1]
             /\ \A n \in Groups :
                   parts[n] = SubSeq(bdata, Layout[n][1] + 1,
                                     Layout[n][1] + Layout[n][2])
    /\ \A k \in DOMAIN reads :
          /\ reads[k].off >= Layout[reads[k].block][1]
          /\ reads[k].off + reads[k].size
                <= Layout[reads[k].block][1] + Layout[reads[k].block][2]
    /\ (pc \in Final /\ DOMAIN parts # {}) => exc.type # "struct.error"
    /\ pc = "constructed"
          => /\ Len(bdata) = 136
             /\ \A i \in 0..135 :
                   Cardinality({k \in DOMAIN reads :
                       reads[k].off <= i /\ i < reads[k].off + reads[k].size}) = 1
             /\ \A n \in Groups :
                   SumSizes([j \in 1..Cardinality(ReadsOf(n)) |->
                       reads[CHOOSE k \in ReadsOf(n) :
                               Cardinality({m \in ReadsOf(n) : m < k}) = j - 1]])
                     = Layout[n][2]

C10_Witness ==
    /\ pc = "constructed"
    /\ Len(reads) = 1 + 24 + 6 + 6 + 9 + 13

====
